---- MODULE Spec2Model ----
(***************************************************************************)
(* Model of backend/ai_generator.py: AIGenerator.generate_response and the *)
(* tool-calling loop it enters (_handle_tool_loop, _execute_tools,         *)
(* _extract_text_response).                                                *)
(*                                                                         *)
(* The model endpoint (client.messages.create) and the tool executor       *)
(* (tool_manager.execute_tool) are the environment: every response and     *)
(* every tool outcome is a nondeterministic choice from a bounded set.     *)
(* Python strings are TLA+ strings, lists are sequences, dicts are         *)
(* functions over their keys (a key that is not set is not in DOMAIN).     *)
(*                                                                         *)
(* A second specification, RagSpec, models the tool registry (ToolManager),*)
(* the search tool's source recording and the tail of RAGSystem.query for  *)
(* queries that share one registry.  Their code (search_tools.py,          *)
(* rag_system.py) is known through its tests and section 4 of the          *)
(* specification only.  Spec keeps the registry state fixed, RagSpec keeps *)
(* the generator state fixed.                                              *)
(***************************************************************************)
EXTENDS Integers, Sequences, FiniteSets, TLC

VARIABLES
    pc,            \* position of the query: "idle", "called", "loop", "exec", "break", "done"
    args,          \* arguments of generate_response
    system_content,\* local of generate_response, parameter of the loop
    response,      \* the response variable (last response obtained)
    messages,      \* the message list the code appends to
    round_count,   \* _handle_tool_loop.round_count
    block_idx,     \* position of the for loop of _execute_tools in response.content
    tool_results,  \* _execute_tools.tool_results
    has_error,     \* _execute_tools.has_error
    result,        \* the value generate_response returned
    calls,         \* keyword arguments of every client.messages.create call, in order
    responses,     \* every response client.messages.create returned, in order
    execs,         \* every tool_manager.execute_tool call, in order
    api_messages,  \* api_params["messages"]: the list generate_response hands to the loop
    registered,    \* ToolManager.tools: the registered tool names, in registration order
    last_sources,  \* last_sources of every tool instance
    serialized,    \* deployment: TRUE when queries run one at a time
    qpc,           \* position of every RAG query: "idle", "generating", "retrieved", "returned"
    qexecs,        \* tool executions every RAG query has made
    qsources,      \* the sources every RAG query retrieved, which it returns
    qcalls,        \* how often every RAG query called get_last_sources and reset_sources
    last_op,       \* the last operation made on the registry, with its result
    api_log,       \* the requests the HTTP API has handled, each with its calls and response
    session_count  \* sessions the session manager has created

\* state of the generator, state of the registry and the RAG queries
gvars == <<pc, args, system_content, response, messages, round_count, block_idx,
           tool_results, has_error, result, calls, responses, execs, api_messages>>
rvars == <<registered, last_sources, serialized, qpc, qexecs, qsources, qcalls, last_op>>
avars == <<api_log, session_count>>

vars == <<pc, args, system_content, response, messages, round_count, block_idx,
          tool_results, has_error, result, calls, responses, execs, api_messages,
          registered, last_sources, serialized, qpc, qexecs, qsources, qcalls, last_op,
          api_log, session_count>>

----------------------------------------------------------------------------
(* Bounds *)

\* largest number of content blocks in one model response
MaxBlocks == 2

\* largest number of tool executions one RAG query makes
MaxExecs == 1

\* largest number of matches the vector store returns to one search
MaxMatches == 2

\* largest number of requests the HTTP API handles
MaxRequests == 2

----------------------------------------------------------------------------
(* Program constants and values *)

MAX_TOOL_ROUNDS == 2

SYSTEM_PROMPT == " You are an AI assistant specialized in course materials"

base_params == [model |-> "test-model", temperature |-> 0, max_tokens |-> 800]

\* Optional[...] arguments: None, or a value
None == [some |-> FALSE]
Some(v) == [some |-> TRUE, val |-> v]

\* truth value of an Optional[str] / Optional[List] / optional object
TruthyStr(o) == o.some /\ o.val # ""
TruthyList(o) == o.some /\ Len(o.val) > 0
TruthyObj(o) == o.some

ToolDefinitions ==
    << [name |-> "search_course_content", description |-> "Search course materials"],
       [name |-> "get_course_outline", description |-> "Get course outline"] >>

Queries == {"What is machine learning?"}
Histories == {None, Some(""), Some("User: hi\nAssistant: hello")}
ToolsArgs == {None, Some(<<>>), Some(ToolDefinitions)}
ToolManagers == {None, Some("tool_manager")}

----------------------------------------------------------------------------
(* The environment: model responses and tool outcomes *)

StopReasons == {"end_turn", "tool_use"}
BlockTypes == {"text", "tool_use"}

\* the text of the i-th block of the k-th response; texts of different blocks differ
TextOf(k, i) == "text_" \o ToString(k) \o "_" \o ToString(i)
\* the call identifier of the i-th block of the k-th response; the endpoint issues unique ids
IdOf(k, i) == "toolu_" \o ToString(k) \o "_" \o ToString(i)

TextBlock(k, i) == [type |-> "text", text |-> TextOf(k, i)]
ToolUseBlock(k, i) ==
    [type |-> "tool_use", id |-> IdOf(k, i), name |-> "search_course_content",
     input |-> [query |-> "q_" \o ToString(k) \o "_" \o ToString(i)]]

Shapes == UNION {[1..n -> BlockTypes] : n \in 0..MaxBlocks}
ContentOf(k, shape) ==
    [i \in 1..Len(shape) |-> IF shape[i] = "text" THEN TextBlock(k, i) ELSE ToolUseBlock(k, i)]

\* the responses the endpoint can give to the k-th call of a query
Responses(k) ==
    {[stop_reason |-> sr, content |-> ContentOf(k, sh)] : sr \in StopReasons, sh \in Shapes}

\* what execute_tool can do: return a text, or raise an Exception with a text
ToolTexts == {"[AI Fundamentals - Lesson 1]\nThis is content about machine learning."}
ExceptionTexts == {"Tool execution failed"}

----------------------------------------------------------------------------
(* Pure helpers of the code *)

\* mutant: the text of the last text block instead of the first
ExtractLastTextResponse(resp) ==
    LET T == {i \in 1..Len(resp.content) : resp.content[i].type = "text"}
    IN IF T = {} THEN "" ELSE resp.content[CHOOSE i \in T : \A j \in T : j <= i].text

RECURSIVE ExtractFrom(_, _)
ExtractFrom(content, i) ==
    IF i > Len(content) THEN ""
    ELSE IF content[i].type = "text" THEN content[i].text
    ELSE ExtractFrom(content, i + 1)

\* _extract_text_response: the text of the first text block, "" if there is none
ExtractTextResponse(resp) == ExtractFrom(resp.content, 1)

\* system content built by generate_response
SystemContent(history) ==
    IF TruthyStr(history)
    THEN SYSTEM_PROMPT \o "\n\nPrevious conversation:\n" \o history.val
    ELSE SYSTEM_PROMPT

\* mutant: only the first definition is passed on
ToolParamsFirstOnly(tools) == ("tools" :> <<Head(tools)>>) @@ ("tool_choice" :> [type |-> "auto"])

\* the tools / tool_choice keys of a call
ToolParams(tools) == ("tools" :> tools) @@ ("tool_choice" :> [type |-> "auto"])

\* mutant: "tools is not None" where the code tests the truth value of tools
InitialParamsToolsNotNone(query, history, tools) ==
    LET p == base_params @@ ("messages" :> <<[role |-> "user", content |-> query]>>)
                         @@ ("system" :> SystemContent(history))
    IN IF tools.some THEN p @@ ToolParams(tools.val) ELSE p

\* keyword arguments of the initial call
InitialParams(query, history, tools) ==
    LET p == base_params @@ ("messages" :> <<[role |-> "user", content |-> query]>>)
                         @@ ("system" :> SystemContent(history))
    IN IF TruthyList(tools) THEN p @@ ToolParams(tools.val) ELSE p

\* mutant: the tool manager is not looked at
EntersToolLoopWithoutManager(resp, tool_manager, tools) ==
    resp.stop_reason = "tool_use" /\ TruthyList(tools)

\* line 100: does generate_response hand over to the tool loop
EntersToolLoop(resp, tool_manager, tools) ==
    resp.stop_reason = "tool_use" /\ TruthyObj(tool_manager) /\ TruthyList(tools)

\* mutant: a round is begun only for a response that holds a tool_use block
LoopConditionNeedsBlock(resp, rc) ==
    /\ resp.stop_reason = "tool_use"
    /\ rc < MAX_TOOL_ROUNDS
    /\ \E i \in 1..Len(resp.content) : resp.content[i].type = "tool_use"

\* mutant: off by one in the while condition
LoopConditionOffByOne(resp, rc) == resp.stop_reason = "tool_use" /\ rc <= MAX_TOOL_ROUNDS

\* line 136: the while condition
LoopCondition(resp, rc) == resp.stop_reason = "tool_use" /\ rc < MAX_TOOL_ROUNDS

\* mutant: a round counted twice
NextRoundTwice(rc) == rc + 2

\* line 137
NextRound(rc) == rc + 1

\* mutant: the error of the round is not looked at
IncludeToolsIgnoringError(err, rc) == rc < MAX_TOOL_ROUNDS

\* line 147
IncludeTools(err, rc) == ~err /\ rc < MAX_TOOL_ROUNDS

\* mutant: the follow-up call falls back to the bare system prompt
NextParamsBarePrompt(msgs, system, tools, include_tools) ==
    LET p == base_params @@ ("messages" :> msgs) @@ ("system" :> SYSTEM_PROMPT)
    IN IF include_tools THEN p @@ ToolParams(tools) ELSE p

\* keyword arguments of a follow-up call
NextParams(msgs, system, tools, include_tools) ==
    LET p == base_params @@ ("messages" :> msgs) @@ ("system" :> system)
    IN IF include_tools THEN p @@ ToolParams(tools) ELSE p

\* mutants: the tool name where the call id belongs; the error flag left out
ToolResultOkWrongId(block, text) ==
    [type |-> "tool_result", tool_use_id |-> block.name, content |-> text]
ToolResultErrorUnflagged(block, etext) ==
    [type |-> "tool_result", tool_use_id |-> block.id, content |-> "Error: " \o etext]

\* the tool_result entries _execute_tools builds
ToolResultOk(block, text) ==
    [type |-> "tool_result", tool_use_id |-> block.id, content |-> text]
ToolResultError(block, etext) ==
    [type |-> "tool_result", tool_use_id |-> block.id,
     content |-> "Error: " \o etext, is_error |-> TRUE]

AssistantMessage(resp) == [role |-> "assistant", content |-> resp.content]
\* mutant: the results sent under a role of their own
ToolResultsMessageToolRole(results) == [role |-> "tool", content |-> results]
ToolResultsMessage(results) == [role |-> "user", content |-> results]

----------------------------------------------------------------------------
(* Tool registry, search tool and RAG queries: data and operations.          *)
(* Texts a tool returns are sequences of words, so that "the text contains   *)
(* a phrase" can be stated.                                                   *)

\* the tool instances the system constructs
ToolNames == {"search_course_content", "get_course_outline"}

\* the names a tool execution may ask for
RequestedNames == ToolNames \cup {"unknown_tool"}

\* the RAG queries that share the registry
Requests == {"q1", "q2"}

\* text contains phrase, both as sequences of words
ContainsPhrase(text, phrase) ==
    \E i \in 0..(Len(text) - Len(phrase)) : SubSeq(text, i + 1, i + Len(phrase)) = phrase

\* ToolManager.tools holds name
IsRegistered(reg, name) == \E i \in 1..Len(reg) : reg[i] = name

\* the lessons of the course in the store
Lessons == {1, 2}

\* what the vector store answers to a search: an error, or a number of matches
\* with the lesson each match comes from, in the order of the matches
StoreOutcomes ==
    {[error |-> TRUE, matches |-> 0, lessons |-> <<>>]} \cup
    {[error |-> FALSE, matches |-> Len(ls), lessons |-> ls] :
        ls \in UNION {[1..n -> Lessons] : n \in 0..MaxMatches}}

\* the keyword arguments of a tool execution: the query and the two filters,
\* each of which may be left out
ToolKwargs ==
    {[query |-> "machine learning", course_name |-> c, lesson_number |-> l] :
        c \in {None, Some("Some Course")}, l \in {None, Some(1)}}

\* the link the store holds for a lesson: some lessons have none
LessonLink(i) ==
    IF i % 2 = 1 THEN Some("https://example.com/lesson/" \o ToString(i)) ELSE None

\* the header of a match from lesson i
HeaderOf(i) == "AI Fundamentals - Lesson " \o ToString(i)

\* the source recorded for a match from lesson i; by names the query whose
\* execution recorded it (bookkeeping of the model, not a field of the program)
SourceOf(q, i) == [text |-> HeaderOf(i), link |-> LessonLink(i), by |-> q]

SourcesOfSearchFirstOnly(q, lessons) == <<SourceOf(q, lessons[1])>>

\* one source per match, in the order of the matches
SourcesOfSearch(q, lessons) == [i \in 1..Len(lessons) |-> SourceOf(q, lessons[i])]

\* the parameters the search tool passes to the search of the store
SearchCall(kwargs) ==
    [query |-> kwargs.query, course_name |-> kwargs.course_name,
     lesson_number |-> kwargs.lesson_number]

NotFoundText(name) == <<"Tool", name, "not", "found">>
StoreErrorText == <<"Search", "error:", "connection", "failed">>

NoContentTextBare(kwargs) == <<"No", "relevant", "content", "found">>

\* the message for a search without a match names the filters that were given
NoContentText(kwargs) ==
    <<"No", "relevant", "content", "found">>
    \o (IF kwargs.course_name.some THEN <<"in", "course", kwargs.course_name.val>> ELSE <<>>)
    \o (IF kwargs.lesson_number.some
        THEN <<"in", "lesson", ToString(kwargs.lesson_number.val)>> ELSE <<>>)

\* every match as its header in brackets followed by its text
RECURSIVE FormattedText(_)
FormattedText(lessons) ==
    IF lessons = <<>> THEN <<>>
    ELSE <<"[" \o HeaderOf(Head(lessons)) \o "]", "content">> \o FormattedText(Tail(lessons))

OutlineText == <<"Course:", "AI Fundamentals", "Lessons:", "2">>

\* the text a registered tool returns
ToolText(name, kwargs, store) ==
    IF name = "search_course_content"
    THEN IF store.error THEN StoreErrorText
         ELSE IF store.matches = 0 THEN NoContentText(kwargs)
         ELSE FormattedText(store.lessons)
    ELSE OutlineText

ExecuteResultRaisesKeyError(reg, name, kwargs, store) ==
    IF IsRegistered(reg, name)
    THEN [outcome |-> "returned", text |-> ToolText(name, kwargs, store)]
    ELSE [outcome |-> "raised", text |-> <<"KeyError", name>>]

\* ToolManager.execute_tool: an unregistered name gives a text, not an exception
ExecuteResult(reg, name, kwargs, store) ==
    IF IsRegistered(reg, name)
    THEN [outcome |-> "returned", text |-> ToolText(name, kwargs, store)]
    ELSE [outcome |-> "returned", text |-> NotFoundText(name)]

RecordSourcesNever(reg, ls, q, name, store) == ls

\* the search tool records one source per match of a successful search, in
\* place of what it held; every other execution leaves the sources alone
RecordSources(reg, ls, q, name, store) ==
    IF /\ IsRegistered(reg, name)
       /\ name = "search_course_content"
       /\ ~store.error
       /\ store.matches > 0
    THEN [ls EXCEPT ![name] = SourcesOfSearch(q, store.lessons)]
    ELSE ls

RECURSIVE ConcatSources(_, _, _)
ConcatSources(reg, ls, i) ==
    IF i > Len(reg) THEN <<>> ELSE ls[reg[i]] \o ConcatSources(reg, ls, i + 1)

\* ToolManager.get_last_sources: what every registered tool holds, concatenated
GetLastSources(reg, ls) == ConcatSources(reg, ls, 1)

ResetSourcesKeeps(reg, ls) == ls

\* ToolManager.reset_sources: every registered tool holds no sources
ResetSources(reg, ls) ==
    [name \in DOMAIN ls |-> IF IsRegistered(reg, name) THEN <<>> ELSE ls[name]]

NoStore == [error |-> FALSE, matches |-> 0, lessons |-> <<>>]
NoKwargs == [query |-> "", course_name |-> None, lesson_number |-> None]
NoOp == [n |-> 0, op |-> "none", by |-> "", name |-> "", kwargs |-> NoKwargs,
         store |-> NoStore, search |-> None, outcome |-> "", text |-> <<>>]

\* the registry operation after last_op, without a tool execution
Op(op, q, name) ==
    [n |-> last_op.n + 1, op |-> op, by |-> q, name |-> name, kwargs |-> NoKwargs,
     store |-> NoStore, search |-> None, outcome |-> "returned", text |-> <<>>]

\* the tool execution after last_op; search is the call of the store's
\* search that the execution made, if it made one
ExecOp(q, name, kwargs, store, r) ==
    [n |-> last_op.n + 1, op |-> "execute", by |-> q, name |-> name, kwargs |-> kwargs,
     store |-> store,
     search |-> IF IsRegistered(registered, name) /\ name = "search_course_content"
                THEN Some(SearchCall(kwargs)) ELSE None,
     outcome |-> r.outcome, text |-> r.text]

----------------------------------------------------------------------------
(* State machine *)

\* mutant: the loop appends to the list it was handed
ListOfCallerAliased(list, entry) == Append(list, entry)

\* line 133: the loop appends to a copy, so the list of the caller is as it
\* was after the loop has appended entry
ListOfCaller(list, entry) == list

NoResponse == [stop_reason |-> "none", content |-> <<>>]
NoArgs == [query |-> "", conversation_history |-> None, tools |-> None, tool_manager |-> None]

\* the generator before any call of generate_response
GenInit ==
    /\ pc = "idle"
    /\ args = NoArgs
    /\ system_content = ""
    /\ response = NoResponse
    /\ messages = <<>>
    /\ round_count = 0
    /\ block_idx = 0
    /\ tool_results = <<>>
    /\ has_error = FALSE
    /\ result = None
    /\ calls = <<>>
    /\ responses = <<>>
    /\ execs = <<>>
    /\ api_messages = <<>>

\* a new registry with no tool registered, new tools, no query started
RegistryInit ==
    /\ registered = <<>>
    /\ last_sources = [name \in ToolNames |-> <<>>]
    /\ qpc = [q \in Requests |-> "idle"]
    /\ qexecs = [q \in Requests |-> 0]
    /\ qsources = [q \in Requests |-> <<>>]
    /\ qcalls = [q \in Requests |-> [gets |-> 0, resets |-> 0]]
    /\ last_op = NoOp

\* the API application before any request
ApiInit ==
    /\ api_log = <<>>
    /\ session_count = 0

Init ==
    /\ GenInit
    /\ RegistryInit
    /\ serialized = TRUE
    /\ ApiInit

\* generate_response, lines 77-97: build the parameters, make the initial call
GenerateResponse(query, history, tools, tool_manager, resp) ==
    /\ pc = "idle"
    /\ args' = [query |-> query, conversation_history |-> history,
                tools |-> tools, tool_manager |-> tool_manager]
    /\ system_content' = SystemContent(history)
    /\ calls' = Append(calls, InitialParams(query, history, tools))
    /\ messages' = <<[role |-> "user", content |-> query]>>
    /\ response' = resp
    /\ responses' = Append(responses, resp)
    /\ pc' = "called"
    /\ UNCHANGED <<round_count, block_idx, tool_results, has_error, result, execs>>
    /\ api_messages' = <<[role |-> "user", content |-> query]>>
    /\ UNCHANGED <<rvars, avars>>

\* generate_response, line 110: return the direct response
ReturnDirect ==
    /\ pc = "called"
    /\ ~EntersToolLoop(response, args.tool_manager, args.tools)
    /\ result' = Some(ExtractTextResponse(response))
    /\ pc' = "done"
    /\ UNCHANGED <<args, system_content, response, messages, round_count, block_idx,
                   tool_results, has_error, calls, responses, execs>>
    /\ UNCHANGED api_messages
    /\ UNCHANGED <<rvars, avars>>

\* generate_response, lines 100-107 and _handle_tool_loop, lines 133-134
EnterToolLoop ==
    /\ pc = "called"
    /\ EntersToolLoop(response, args.tool_manager, args.tools)
    /\ round_count' = 0
    /\ pc' = "loop"
    /\ UNCHANGED <<args, system_content, response, messages, block_idx,
                   tool_results, has_error, result, calls, responses, execs>>
    /\ UNCHANGED api_messages
    /\ UNCHANGED <<rvars, avars>>

\* mutant: the round starts a new list from the assistant message
BeginRoundReplacesMessages ==
    /\ pc = "loop"
    /\ LoopCondition(response, round_count)
    /\ round_count' = NextRound(round_count)
    /\ messages' = <<AssistantMessage(response)>>
    /\ tool_results' = <<>>
    /\ has_error' = FALSE
    /\ block_idx' = 1
    /\ pc' = "exec"
    /\ UNCHANGED <<args, system_content, response, result, calls, responses, execs>>
    /\ api_messages' = ListOfCaller(api_messages, AssistantMessage(response))
    /\ UNCHANGED <<rvars, avars>>

\* lines 136-140 and 175-176: a round begins
BeginRound ==
    /\ pc = "loop"
    /\ LoopCondition(response, round_count)
    /\ round_count' = NextRound(round_count)
    /\ messages' = Append(messages, AssistantMessage(response))
    /\ tool_results' = <<>>
    /\ has_error' = FALSE
    /\ block_idx' = 1
    /\ pc' = "exec"
    /\ UNCHANGED <<args, system_content, response, result, calls, responses, execs>>
    /\ api_messages' = ListOfCaller(api_messages, AssistantMessage(response))
    /\ UNCHANGED <<rvars, avars>>

\* lines 178-179: a block that is not a tool_use block is passed over
SkipBlock ==
    /\ pc = "exec"
    /\ block_idx <= Len(response.content)
    /\ response.content[block_idx].type # "tool_use"
    /\ block_idx' = block_idx + 1
    /\ UNCHANGED <<pc, args, system_content, response, messages, round_count,
                   tool_results, has_error, result, calls, responses, execs>>
    /\ UNCHANGED api_messages
    /\ UNCHANGED <<rvars, avars>>

ExecRecord(block, outcome, text) ==
    [round |-> round_count, calls_before |-> Len(calls), id |-> block.id,
     name |-> block.name, input |-> block.input, outcome |-> outcome, text |-> text]

\* mutant: every execution marks the round as errored
ExecuteToolReturnsMarksError(text) ==
    /\ pc = "exec"
    /\ block_idx <= Len(response.content)
    /\ response.content[block_idx].type = "tool_use"
    /\ LET block == response.content[block_idx] IN
        /\ execs' = Append(execs, ExecRecord(block, "returned", text))
        /\ tool_results' = Append(tool_results, ToolResultOk(block, text))
    /\ block_idx' = block_idx + 1
    /\ has_error' = TRUE
    /\ UNCHANGED <<pc, args, system_content, response, messages, round_count,
                   result, calls, responses>>
    /\ UNCHANGED api_messages
    /\ UNCHANGED <<rvars, avars>>

\* lines 180-188: execute_tool returns
ExecuteToolReturns(text) ==
    /\ pc = "exec"
    /\ block_idx <= Len(response.content)
    /\ response.content[block_idx].type = "tool_use"
    /\ LET block == response.content[block_idx] IN
        /\ execs' = Append(execs, ExecRecord(block, "returned", text))
        /\ tool_results' = Append(tool_results, ToolResultOk(block, text))
    /\ block_idx' = block_idx + 1
    /\ UNCHANGED <<pc, args, system_content, response, messages, round_count,
                   has_error, result, calls, responses>>
    /\ UNCHANGED api_messages
    /\ UNCHANGED <<rvars, avars>>

\* mutant: a block whose execution raised is executed once more
ExecuteToolRaisesRetriesOnce(etext) ==
    /\ pc = "exec"
    /\ block_idx <= Len(response.content)
    /\ response.content[block_idx].type = "tool_use"
    /\ LET block == response.content[block_idx]
           tried == \E n \in 1..Len(execs) : execs[n].id = block.id
       IN /\ execs' = Append(execs, ExecRecord(block, "raised", etext))
          /\ tool_results' = IF tried THEN Append(tool_results, ToolResultError(block, etext))
                             ELSE tool_results
          /\ has_error' = (has_error \/ tried)
          /\ block_idx' = IF tried THEN block_idx + 1 ELSE block_idx
    /\ UNCHANGED <<pc, args, system_content, response, messages, round_count,
                   result, calls, responses>>
    /\ UNCHANGED api_messages
    /\ UNCHANGED <<rvars, avars>>

\* mutant: no try/except, the exception leaves generate_response
ExecuteToolRaisesPropagates(etext) ==
    /\ pc = "exec"
    /\ block_idx <= Len(response.content)
    /\ response.content[block_idx].type = "tool_use"
    /\ execs' = Append(execs, ExecRecord(response.content[block_idx], "raised", etext))
    /\ pc' = "raised"
    /\ UNCHANGED <<args, system_content, response, messages, round_count, block_idx,
                   tool_results, has_error, result, calls, responses>>
    /\ UNCHANGED api_messages
    /\ UNCHANGED <<rvars, avars>>

\* mutant: the try encloses the whole for loop, a raise ends the batch
ExecuteToolRaisesAbortsBatch(etext) ==
    /\ pc = "exec"
    /\ block_idx <= Len(response.content)
    /\ response.content[block_idx].type = "tool_use"
    /\ LET block == response.content[block_idx] IN
        /\ execs' = Append(execs, ExecRecord(block, "raised", etext))
        /\ tool_results' = Append(tool_results, ToolResultError(block, etext))
    /\ has_error' = TRUE
    /\ block_idx' = Len(response.content) + 1
    /\ UNCHANGED <<pc, args, system_content, response, messages, round_count,
                   result, calls, responses>>
    /\ UNCHANGED api_messages
    /\ UNCHANGED <<rvars, avars>>

\* lines 180-181 and 189-198: execute_tool raises an Exception, which is caught
ExecuteToolRaises(etext) ==
    /\ pc = "exec"
    /\ block_idx <= Len(response.content)
    /\ response.content[block_idx].type = "tool_use"
    /\ LET block == response.content[block_idx] IN
        /\ execs' = Append(execs, ExecRecord(block, "raised", etext))
        /\ tool_results' = Append(tool_results, ToolResultError(block, etext))
    /\ has_error' = TRUE
    /\ block_idx' = block_idx + 1
    /\ UNCHANGED <<pc, args, system_content, response, messages, round_count,
                   result, calls, responses>>
    /\ UNCHANGED api_messages
    /\ UNCHANGED <<rvars, avars>>

\* mutant: the break on error is missing
AfterCallNoBreak(err) == "loop"

\* where the loop goes after the follow-up call (lines 159-160)
AfterCall(err) == IF err THEN "break" ELSE "loop"

\* mutant: the response of the follow-up call is not assigned
FollowUpCallKeepsResponse(resp) ==
    /\ pc = "exec"
    /\ block_idx > Len(response.content)
    /\ LET msgs == Append(messages, ToolResultsMessage(tool_results)) IN
        /\ messages' = msgs
        /\ calls' = Append(calls, NextParams(msgs, system_content, args.tools.val,
                                             IncludeTools(has_error, round_count)))
    /\ responses' = Append(responses, resp)
    /\ pc' = AfterCall(has_error)
    /\ UNCHANGED <<args, system_content, response, round_count, block_idx, tool_results,
                   has_error, result, execs>>
    /\ api_messages' = ListOfCaller(api_messages, ToolResultsMessage(tool_results))
    /\ UNCHANGED <<rvars, avars>>

\* mutant: the follow-up call does not wait for the end of the for loop
FollowUpCallEarly(resp) ==
    /\ pc = "exec"
    /\ block_idx >= 1
    /\ LET msgs == Append(messages, ToolResultsMessage(tool_results)) IN
        /\ messages' = msgs
        /\ calls' = Append(calls, NextParams(msgs, system_content, args.tools.val,
                                             IncludeTools(has_error, round_count)))
    /\ response' = resp
    /\ responses' = Append(responses, resp)
    /\ pc' = AfterCall(has_error)
    /\ UNCHANGED <<args, system_content, round_count, block_idx, tool_results,
                   has_error, result, execs>>
    /\ api_messages' = ListOfCaller(api_messages, ToolResultsMessage(tool_results))
    /\ UNCHANGED <<rvars, avars>>

\* lines 200 and 144-160: the results are appended and the follow-up call is made
FollowUpCall(resp) ==
    /\ pc = "exec"
    /\ block_idx > Len(response.content)
    /\ LET msgs == Append(messages, ToolResultsMessage(tool_results)) IN
        /\ messages' = msgs
        /\ calls' = Append(calls, NextParams(msgs, system_content, args.tools.val,
                                             IncludeTools(has_error, round_count)))
    /\ response' = resp
    /\ responses' = Append(responses, resp)
    /\ pc' = AfterCall(has_error)
    /\ UNCHANGED <<args, system_content, round_count, block_idx, tool_results,
                   has_error, result, execs>>
    /\ api_messages' = ListOfCaller(api_messages, ToolResultsMessage(tool_results))
    /\ UNCHANGED <<rvars, avars>>

\* mutant: empty text whenever the last response still asks for a tool
ReturnFromLoopEmptyOnToolUse ==
    /\ \/ pc = "break"
       \/ pc = "loop" /\ ~LoopCondition(response, round_count)
    /\ result' = Some(IF response.stop_reason = "tool_use" THEN ""
                      ELSE ExtractTextResponse(response))
    /\ pc' = "done"
    /\ UNCHANGED <<args, system_content, response, messages, round_count, block_idx,
                   tool_results, has_error, calls, responses, execs>>
    /\ UNCHANGED api_messages
    /\ UNCHANGED <<rvars, avars>>

\* line 162: the loop is left and the text of the response is returned
ReturnFromLoop ==
    /\ \/ pc = "break"
       \/ pc = "loop" /\ ~LoopCondition(response, round_count)
    /\ result' = Some(ExtractTextResponse(response))
    /\ pc' = "done"
    /\ UNCHANGED <<args, system_content, response, messages, round_count, block_idx,
                   tool_results, has_error, calls, responses, execs>>
    /\ UNCHANGED api_messages
    /\ UNCHANGED <<rvars, avars>>

Next ==
    \/ \E q \in Queries, h \in Histories, t \in ToolsArgs, tm \in ToolManagers :
         \E r \in Responses(1) : GenerateResponse(q, h, t, tm, r)
    \/ ReturnDirect
    \/ EnterToolLoop
    \/ BeginRound
    \/ SkipBlock
    \/ \E text \in ToolTexts : ExecuteToolReturns(text)
    \/ \E etext \in ExceptionTexts : ExecuteToolRaises(etext)
    \/ \E r \in Responses(Len(responses) + 1) : FollowUpCall(r)
    \/ ReturnFromLoop

Spec == Init /\ [][Next]_vars

\* the same program when every model call and every tool execution comes back:
\* the interpreter then always takes the next step of the running query
LiveSpec == Init /\ [][Next]_vars /\ WF_vars(Next)

\* the texts by which the executor reports a failure without raising: tool not
\* found, a search error reported by the store, no relevant content
TextOutcomes ==
    {"Tool 'unknown_tool' not found",
     "Search error: connection failed",
     "No relevant content found."}

\* tool managers whose execute_tool returns one of these texts
OutcomeManagers == {Some(t) : t \in TextOutcomes}

\* the program run with such a tool manager
OutcomeNext ==
    \/ \E q \in Queries, tm \in OutcomeManagers :
         \E r \in Responses(1) : GenerateResponse(q, None, Some(ToolDefinitions), tm, r)
    \/ ReturnDirect
    \/ EnterToolLoop
    \/ BeginRound
    \/ SkipBlock
    \/ ExecuteToolReturns(args.tool_manager.val)
    \/ \E etext \in ExceptionTexts : ExecuteToolRaises(etext)
    \/ \E r \in Responses(Len(responses) + 1) : FollowUpCall(r)
    \/ ReturnFromLoop

OutcomeSpec == Init /\ [][OutcomeNext]_vars

----------------------------------------------------------------------------
(* Registry and RAG queries: state machine *)

RagInit ==
    /\ GenInit
    /\ RegistryInit
    /\ serialized \in BOOLEAN
    /\ ApiInit

\* ToolManager.register_tool, while the system is set up: no query has started
RegisterTool(name) ==
    /\ \A q \in Requests : qpc[q] = "idle"
    /\ ~IsRegistered(registered, name)
    /\ registered' = Append(registered, name)
    /\ last_op' = Op("register", "", name)
    /\ UNCHANGED <<last_sources, serialized, qpc, qexecs, qsources, qcalls>>
    /\ UNCHANGED <<gvars, avars>>

\* RAGSystem.query begins and hands the registry to generate_response; where
\* queries run one at a time it begins only when no other query is under way
StartQuery(q) ==
    /\ qpc[q] = "idle"
    /\ serialized => \A o \in Requests : qpc[o] \in {"idle", "returned"}
    /\ qpc' = [qpc EXCEPT ![q] = "generating"]
    /\ UNCHANGED <<registered, last_sources, serialized, qexecs, qsources, qcalls, last_op>>
    /\ UNCHANGED <<gvars, avars>>

\* generate_response, running for query q, executes a tool through the registry
ExecuteTool(q, name, kwargs, store) ==
    /\ qpc[q] = "generating"
    /\ qexecs[q] < MaxExecs
    /\ qexecs' = [qexecs EXCEPT ![q] = @ + 1]
    /\ last_sources' = RecordSources(registered, last_sources, q, name, store)
    /\ last_op' = ExecOp(q, name, kwargs, store, ExecuteResult(registered, name, kwargs, store))
    /\ UNCHANGED <<registered, serialized, qpc, qsources, qcalls>>
    /\ UNCHANGED <<gvars, avars>>

\* RAGSystem.query: generate_response has returned, the query retrieves the sources
RetrieveSources(q) ==
    /\ qpc[q] = "generating"
    /\ qsources' = [qsources EXCEPT ![q] = GetLastSources(registered, last_sources)]
    /\ qcalls' = [qcalls EXCEPT ![q].gets = @ + 1]
    /\ qpc' = [qpc EXCEPT ![q] = "retrieved"]
    /\ last_op' = Op("get_last_sources", q, "")
    /\ UNCHANGED <<registered, last_sources, serialized, qexecs>>
    /\ UNCHANGED <<gvars, avars>>

ResetAndReturnWithoutReset(q) ==
    /\ qpc[q] = "retrieved"
    /\ qpc' = [qpc EXCEPT ![q] = "returned"]
    /\ UNCHANGED <<registered, last_sources, serialized, qexecs, qsources, qcalls, last_op>>
    /\ UNCHANGED <<gvars, avars>>

\* RAGSystem.query: the query resets the sources and returns (response, sources)
ResetAndReturn(q) ==
    /\ qpc[q] = "retrieved"
    /\ last_sources' = ResetSources(registered, last_sources)
    /\ qcalls' = [qcalls EXCEPT ![q].resets = @ + 1]
    /\ qpc' = [qpc EXCEPT ![q] = "returned"]
    /\ last_op' = Op("reset_sources", q, "")
    /\ UNCHANGED <<registered, serialized, qexecs, qsources>>
    /\ UNCHANGED <<gvars, avars>>

\* the keyword arguments the model gives to a tool: the search tool takes the
\* query and the two optional filters
KwargsFor(name) ==
    IF name = "search_course_content" THEN ToolKwargs
    ELSE {[query |-> "machine learning", course_name |-> Some("Some Course"),
           lesson_number |-> None]}

\* the store answers a search only when the registered search tool runs one
AnswersFor(reg, name) ==
    IF IsRegistered(reg, name) /\ name = "search_course_content" THEN StoreOutcomes
    ELSE {NoStore}

\* a tool execution without filters
PlainKwargs == [query |-> "machine learning", course_name |-> None, lesson_number |-> None]

\* the matches of the answer come from lessons 1, 2, 1, ... in turn
InTurn(store) == \A i \in 1..Len(store.lessons) : store.lessons[i] = 1 + ((i - 1) % 2)

RagNext ==
    \/ \E name \in ToolNames : RegisterTool(name)
    \/ \E q \in Requests : StartQuery(q)
    \/ \E q \in Requests, name \in RequestedNames :
         \E store \in AnswersFor(registered, name) :
            InTurn(store) /\ ExecuteTool(q, name, PlainKwargs, store)
    \/ \E q \in Requests : RetrieveSources(q)
    \/ \E q \in Requests : ResetAndReturn(q)

RagSpec == RagInit /\ [][RagNext]_vars

\* the search tool in detail: one query, with every combination of filters and
\* with matches from the lessons in any order
SearchNext ==
    \/ \E name \in ToolNames : RegisterTool(name)
    \/ StartQuery("q1")
    \/ \E name \in RequestedNames :
         \E kwargs \in KwargsFor(name), store \in AnswersFor(registered, name) :
            ExecuteTool("q1", name, kwargs, store)
    \/ RetrieveSources("q1")
    \/ ResetAndReturn("q1")

SearchSpec == Init /\ [][SearchNext]_vars

----------------------------------------------------------------------------
(* HTTP API: the handlers of /api/query and /api/courses *)

\* the bodies of the requests to POST /api/query: session_id absent, empty, given
QueryRequests ==
    {[query |-> "What is machine learning?", session_id |-> sid] :
        sid \in {None, Some(""), Some("my-session-456")}}

\* what a collaborator of the handlers does when called: it returns, or it
\* raises an Exception carrying a text
Returned(v) == [raised |-> FALSE, value |-> v]
Raised(text) == [raised |-> TRUE, exc |-> [type |-> "Exception", args |-> <<text>>]]

\* str(e) of an exception built from one text
StrOf(e) == IF Len(e.args) = 1 THEN e.args[1] ELSE ""

\* session_manager.create_session: a new id, or an exception
CreateOutcomes(n) ==
    {Returned("session_" \o ToString(n + 1)), Raised("Session store unavailable")}

\* rag_system.query: (answer, sources), or an exception
QueryOutcomes ==
    {Returned([answer |-> "This is a test response about machine learning.",
               sources |-> <<[text |-> "AI Fundamentals - Lesson 1",
                              link |-> "https://example.com/lesson1"]>>]),
     Raised("Database connection failed")}

\* rag_system.get_course_analytics: the analytics, or an exception
AnalyticsOutcomes ==
    {Returned([total_courses |-> 3,
               course_titles |-> <<"AI Fundamentals", "Python Basics", "Data Science 101">>]),
     Raised("Storage error")}

\* mutant: only an absent session id counts as missing
NeedsSessionWhenAbsent(request) == request.session_id = None

\* conftest.py line 58: if not session_id
NeedsSession(request) == ~TruthyStr(request.session_id)

\* mutant: the exception is left to the framework
ErrorResponseGeneric(e) == [status |-> 500, body |-> [detail |-> "Internal Server Error"]]

\* conftest.py lines 68-69 and 80-81: HTTPException(status_code=500, detail=str(e))
ErrorResponse(e) == [status |-> 500, body |-> [detail |-> StrOf(e)]]

\* POST /api/query, conftest.py lines 53-69; created and queried are what
\* create_session and rag_system.query do if the handler calls them
QueryDocuments(request, created, queried) ==
    /\ Len(api_log) < MaxRequests
    /\ LET need == NeedsSession(request)
           create_failed == need /\ created.raised
           session_id == IF need THEN (IF created.raised THEN "" ELSE created.value)
                         ELSE request.session_id.val
           http == IF create_failed THEN ErrorResponse(created.exc)
                   ELSE IF queried.raised THEN ErrorResponse(queried.exc)
                   ELSE [status |-> 200,
                         body |-> [answer |-> queried.value.answer,
                                   sources |-> queried.value.sources,
                                   session_id |-> session_id]]
       IN /\ api_log' = Append(api_log,
                [endpoint |-> "POST /api/query",
                 request |-> request,
                 create_session |-> IF need THEN Some(created) ELSE None,
                 query |-> IF create_failed THEN None
                           ELSE Some([args |-> <<request.query, session_id>>,
                                      outcome |-> queried]),
                 status |-> http.status,
                 body |-> http.body])
          /\ session_count' = IF need /\ ~created.raised THEN session_count + 1
                              ELSE session_count
    /\ UNCHANGED <<gvars, rvars>>

\* GET /api/courses, conftest.py lines 71-81
GetCourseStats(analytics) ==
    /\ Len(api_log) < MaxRequests
    /\ LET http == IF analytics.raised THEN ErrorResponse(analytics.exc)
                   ELSE [status |-> 200,
                         body |-> [total_courses |-> analytics.value.total_courses,
                                   course_titles |-> analytics.value.course_titles]]
       IN api_log' = Append(api_log,
                [endpoint |-> "GET /api/courses",
                 analytics |-> analytics,
                 status |-> http.status,
                 body |-> http.body])
    /\ UNCHANGED session_count
    /\ UNCHANGED <<gvars, rvars>>

ApiNext ==
    \/ \E request \in QueryRequests, created \in CreateOutcomes(session_count),
          queried \in QueryOutcomes :
         QueryDocuments(request, created, queried)
    \/ \E analytics \in AnalyticsOutcomes : GetCourseStats(analytics)

ApiSpec == Init /\ [][ApiNext]_vars

----------------------------------------------------------------------------
(* Vocabulary of the properties, defined on the logs and the message lists *)

\* tool-execution rounds begun so far: one assistant message is appended per round
RoundsTaken == Cardinality({j \in 1..Len(messages) : messages[j].role = "assistant"})

IsToolUse(b) == b.type = "tool_use"
IsText(b) == b.type = "text"
ToolUsesOf(content) == SelectSeq(content, IsToolUse)
TextsOf(content) == SelectSeq(content, IsText)

\* the text of a response: its first text block, the empty string without one
FirstTextOf(content) == IF TextsOf(content) = <<>> THEN "" ELSE Head(TextsOf(content)).text

\* the executions made while k model calls had been issued: those of round k
ExecsOfRound(k) == LET InRound(x) == x.calls_before = k IN SelectSeq(execs, InRound)
RoundRaised(k) == \E i \in 1..Len(execs) : execs[i].calls_before = k /\ execs[i].outcome = "raised"

\* the query went through the tool loop
LoopEntered == pc \in {"loop", "exec", "break"} \/ (pc = "done" /\ EntersToolLoop(responses[1], args.tool_manager, args.tools))

\* the tool_result entries of round k, as far as they exist: the list under
\* construction while the round runs, afterwards the last message of call k+1
ResultsOfRound(k) ==
    IF Len(calls) > k THEN calls[k + 1].messages[Len(calls[k + 1].messages)].content
    ELSE tool_results

----------------------------------------------------------------------------
(* Properties *)

\* C1: a query performs at most MAX_TOOL_ROUNDS tool-execution rounds and at most
\* MAX_TOOL_ROUNDS + 1 model calls, whatever the responses are.
C1_BoundedRoundsAndCalls ==
    /\ RoundsTaken <= MAX_TOOL_ROUNDS
    /\ Len(calls) <= MAX_TOOL_ROUNDS + 1
    /\ \A i \in 1..Len(execs) : execs[i].calls_before <= MAX_TOOL_ROUNDS

\* C1 witness: a finished query in which every response had stop reason tool_use
C1_Witness ==
    /\ pc = "done"
    /\ Len(responses) = MAX_TOOL_ROUNDS + 1
    /\ \A k \in 1..Len(responses) : responses[k].stop_reason = "tool_use"
    /\ RoundsTaken = MAX_TOOL_ROUNDS

C3_DirectResponse ==
    (Len(responses) >= 1 /\ responses[1].stop_reason # "tool_use") =>
        /\ Len(calls) = 1 /\ Len(responses) = 1
        /\ execs = <<>>
        /\ pc = "done" => result = Some(FirstTextOf(responses[1].content))

\* C3 witness: a direct answer although tools and a tool manager were passed, and
\* although the response holds a tool_use block before its text
C3_Witness ==
    /\ pc = "done"
    /\ responses[1].stop_reason # "tool_use"
    /\ TruthyList(args.tools) /\ TruthyObj(args.tool_manager)
    /\ Len(responses[1].content) >= 2 /\ IsToolUse(responses[1].content[1])
    /\ result.val # ""

\* the tool-result messages of a message list: the user messages after the first
ToolResultPositions(m) == {j \in 2..Len(m) : m[j].role = "user"}

\* C4: in every message list sent, the i-th tool_result of a tool-result message
\* carries the id of the i-th tool_use block of the assistant message just before.
C4_ResultIdsMatch ==
    \A c \in 1..Len(calls) :
        LET m == calls[c].messages IN
        \A j \in ToolResultPositions(m) :
            /\ m[j - 1].role = "assistant"
            /\ LET uses == ToolUsesOf(m[j - 1].content) IN
               \A i \in 1..Len(m[j].content) :
                   /\ i <= Len(uses)
                   /\ m[j].content[i].type = "tool_result"
                   /\ m[j].content[i].tool_use_id = uses[i].id

\* C4 witness: a list sent with two tool-result messages, one answering two
\* tool_use blocks, one answering a tool_use block that follows a text block
C4_Witness ==
    /\ Len(calls) = 3
    /\ LET m == calls[3].messages IN
        /\ Len(m[3].content) = 2
        /\ Len(m[5].content) = 1 /\ IsText(m[4].content[1])

\* C5: a tool raising in round k leaves exactly k follow-up calls when the loop
\* returns, and no execution after round k, whatever the k-th follow-up response.
C5_ErrorStopsRounds ==
    \A k \in 1..MAX_TOOL_ROUNDS :
        RoundRaised(k) =>
            /\ Len(calls) <= k + 1
            /\ \A i \in 1..Len(execs) : execs[i].calls_before <= k
            /\ pc = "done" => Len(calls) - 1 = k

\* C5 witness: a raise in round 1, answered by a response that asks for a tool again
C5_Witness ==
    /\ pc = "done" /\ RoundRaised(1)
    /\ responses[2].stop_reason = "tool_use"
    /\ ToolUsesOf(responses[2].content) # <<>>

\* the tool_result of an execution is in place, flagged, with the given content
ErrorResultPresent(x, content) ==
    \E i \in 1..Len(ResultsOfRound(x.calls_before)) :
        LET r == ResultsOfRound(x.calls_before)[i] IN
        /\ r.type = "tool_result"
        /\ r.tool_use_id = x.id
        /\ "is_error" \in DOMAIN r /\ r.is_error = TRUE
        /\ r.content = content

\* C6 as stated: the content of the flagged tool_result is the error text.
C6_Original ==
    \A n \in 1..Len(execs) :
        execs[n].outcome = "raised" => ErrorResultPresent(execs[n], execs[n].text)

\* C6: an exception of a tool execution does not leave the loop: it becomes a
\* tool_result with the call id, the error flag and the content "Error: "
\* followed by the error text, and the round still gets its one model call
\* before the loop returns a value.
C6_ErrorBecomesResult ==
    \A n \in 1..Len(execs) :
        execs[n].outcome = "raised" =>
            /\ pc \in {"exec", "break", "done"}
            /\ has_error
            /\ ErrorResultPresent(execs[n], "Error: " \o execs[n].text)
            /\ pc \in {"break", "done"} => Len(calls) = execs[n].calls_before + 1
            /\ pc = "done" => result.some

\* C6 witness: returned after a round in which an execution raised
C6_Witness ==
    /\ pc = "done" /\ result.some
    /\ \E n \in 1..Len(execs) : execs[n].outcome = "raised" /\ execs[n].calls_before = 2

\* C7: the follow-up call of round k offers the tools, with tool_choice auto,
\* exactly when round k had no tool error and k < MAX_TOOL_ROUNDS.
C7_ToolsOfferedIff ==
    \A c \in 2..Len(calls) :
        LET k == c - 1
            offered == "tools" \in DOMAIN calls[c]
        IN /\ offered <=> (~RoundRaised(k) /\ k < MAX_TOOL_ROUNDS)
           /\ offered <=> "tool_choice" \in DOMAIN calls[c]
           /\ offered => /\ calls[c].tools = args.tools.val
                         /\ calls[c].tool_choice = [type |-> "auto"]

\* C7 witness: tools offered after a clean round 1, not offered after round 2
C7_Witness ==
    /\ Len(calls) = 3
    /\ "tools" \in DOMAIN calls[2]
    /\ "tools" \notin DOMAIN calls[3]
    /\ ~RoundRaised(2)

\* the loop ran out of rounds while the last response still asks for a tool
ExhaustedOnToolUse ==
    /\ pc = "done" /\ LoopEntered
    /\ RoundsTaken = MAX_TOOL_ROUNDS
    /\ ~RoundRaised(MAX_TOOL_ROUNDS)
    /\ response.stop_reason = "tool_use"

EarlierTexts ==
    {responses[k].content[i].text :
        <<k, i>> \in {p \in (1..(Len(responses) - 1)) \X (1..(MaxBlocks + 1)) :
                        /\ p[2] <= Len(responses[p[1]].content)
                        /\ IsText(responses[p[1]].content[p[2]])}}

\* C9: the value returned is the text of the last response obtained (its first
\* text block, or ""), never a text of an earlier response.
C9_ReturnsLastResponseText ==
    pc = "done" =>
        /\ result = Some(FirstTextOf(responses[Len(responses)].content))
        /\ result.val \notin EarlierTexts

\* C9 witness: the last response has no text block while the earlier ones have
C9_Witness ==
    /\ pc = "done" /\ Len(responses) = 3
    /\ TextsOf(responses[1].content) # <<>> /\ TextsOf(responses[2].content) # <<>>
    /\ TextsOf(responses[3].content) = <<>>
    /\ result = Some("")

\* C10: the list sent with the follow-up call of round k ends with one user
\* message holding all tool results of round k, in order, right after the
\* assistant message holding the content round k answered.
C10_FollowUpListTail ==
    \A c \in 2..Len(calls) :
        LET m == calls[c].messages
            n == Len(m)
            xs == ExecsOfRound(c - 1)
        IN /\ n >= 3
           /\ m[n].role = "user"
           /\ Len(m[n].content) = Len(xs)
           /\ \A i \in 1..Len(xs) :
                /\ m[n].content[i].type = "tool_result"
                /\ m[n].content[i].tool_use_id = xs[i].id
                /\ ("is_error" \in DOMAIN m[n].content[i]) <=> (xs[i].outcome = "raised")
           /\ m[n - 1] = [role |-> "assistant", content |-> responses[c - 1].content]
           /\ Len(xs) = Len(ToolUsesOf(responses[c - 1].content))

\* C10 witness: a follow-up call whose last message holds two results, one flagged
C10_Witness ==
    /\ Len(calls) = 2
    /\ LET m == calls[2].messages IN
        /\ Len(m[Len(m)].content) = 2
        /\ "is_error" \in DOMAIN m[Len(m)].content[1]
        /\ "is_error" \notin DOMAIN m[Len(m)].content[2]

\* C11: every tool_use block of an assistant turn is executed, those after a
\* block whose execution raised included, all results go into the one user
\* message of the round, and one raise marks the round errored and ends the
\* tool rounds although other executions of the batch returned.
C11_WholeBatchExecuted ==
    /\ pc = "exec" => has_error = RoundRaised(Len(calls))
    /\ \A k \in 1..(Len(calls) - 1) :
        LET uses == ToolUsesOf(responses[k].content)
            xs == ExecsOfRound(k)
            m == calls[k + 1].messages
        IN /\ Len(xs) = Len(uses)
           /\ \A i \in 1..Len(uses) : xs[i].id = uses[i].id
           /\ Len(m) = 2 * k + 1
           /\ Len(m[Len(m)].content) = Len(uses)
           /\ RoundRaised(k) => /\ Len(calls) = k + 1
                                /\ "tools" \notin DOMAIN calls[k + 1]
                                /\ pc \in {"break", "done"}

\* C11 witness: a batch of two whose first execution raised and whose second
\* returned, answered by a response that asks for a tool again
C11_Witness ==
    /\ pc = "done" /\ Len(calls) = 2
    /\ Len(execs) = 2
    /\ execs[1].outcome = "raised" /\ execs[2].outcome = "returned"
    /\ responses[2].stop_reason = "tool_use"

\* the response and the position of the block an execution belongs to
BlockPlaces(x) ==
    {p \in (1..Len(responses)) \X (1..(MaxBlocks + 1)) :
        /\ p[2] <= Len(responses[p[1]].content)
        /\ IsToolUse(responses[p[1]].content[p[2]])
        /\ responses[p[1]].content[p[2]].id = x.id}

\* C12: model calls and tool executions are strictly sequential: a block is
\* executed after the response holding it was received and before the next
\* call, the executions of a round follow the order of the blocks, and a
\* follow-up call is issued only when every block of the round was executed.
C12_StrictlySequential ==
    /\ \A n \in 1..Len(execs) :
        /\ Cardinality(BlockPlaces(execs[n])) = 1
        /\ \A p \in BlockPlaces(execs[n]) : execs[n].calls_before = p[1]
    /\ \A n \in 1..Len(execs), m \in 1..Len(execs) :
        n < m => \A p \in BlockPlaces(execs[n]), q \in BlockPlaces(execs[m]) :
                    p[1] < q[1] \/ (p[1] = q[1] /\ p[2] < q[2])
    /\ \A c \in 2..Len(calls) :
        \A i \in 1..Len(responses[c - 1].content) :
            IsToolUse(responses[c - 1].content[i]) =>
                \E n \in 1..Len(execs) :
                    /\ execs[n].id = responses[c - 1].content[i].id
                    /\ execs[n].calls_before = c - 1
    /\ Len(responses) = Len(calls)

\* C12 witness: two rounds of two executions each
C12_Witness ==
    /\ Len(calls) = 3 /\ Len(execs) = 4
    /\ execs[2].calls_before = 1 /\ execs[3].calls_before = 2

\* C13 as stated: the tool definitions are supplied on every model call.
C13_Original ==
    TruthyList(args.tools) => \A c \in 1..Len(calls) : "tools" \in DOMAIN calls[c]

\* C13: the tool definitions passed to the query are supplied unchanged on the
\* initial call and on the follow-up call of a round without tool error that
\* is not the last allowed round; the follow-up call after an errored round
\* and the one after round MAX_TOOL_ROUNDS carry no tool definitions.
C13_ToolsSuppliedWhileRoundsRemain ==
    TruthyList(args.tools) =>
        \A c \in 1..Len(calls) :
            /\ (c = 1 \/ (~RoundRaised(c - 1) /\ c - 1 # MAX_TOOL_ROUNDS))
                 => "tools" \in DOMAIN calls[c] /\ calls[c].tools = args.tools.val
            /\ (c > 1 /\ (RoundRaised(c - 1) \/ c - 1 = MAX_TOOL_ROUNDS))
                 => "tools" \notin DOMAIN calls[c]

\* C13 witness: the three calls of a query, the last one without the definitions
C13_Witness ==
    /\ pc = "done" /\ Len(calls) = 3
    /\ "tools" \in DOMAIN calls[1] /\ "tools" \in DOMAIN calls[2]
    /\ calls[2].tools = ToolDefinitions
    /\ "tools" \notin DOMAIN calls[3]

\* C15: the initial call carries tools and tool_choice = auto exactly when a
\* non-empty tools list was passed, whether or not a tool manager was passed.
C15_InitialCallTools ==
    Len(calls) >= 1 =>
        LET given == args.tools.some /\ args.tools.val # <<>> IN
        /\ given => /\ "tools" \in DOMAIN calls[1] /\ calls[1].tools = args.tools.val
                    /\ "tool_choice" \in DOMAIN calls[1]
                    /\ calls[1].tool_choice = [type |-> "auto"]
        /\ ~given => "tools" \notin DOMAIN calls[1] /\ "tool_choice" \notin DOMAIN calls[1]

\* C15 witness: tools offered without a tool manager, and an empty list passed
\* with a tool manager
C15_Witness ==
    /\ Len(calls) >= 1
    /\ \/ "tools" \in DOMAIN calls[1] /\ ~args.tool_manager.some
       \/ args.tools = Some(<<>>) /\ args.tool_manager.some

\* the system content C16 states for a non-empty history: prompt, then history
PromptThenHistory(h) == SYSTEM_PROMPT \o h

\* C16 as stated: with a non-empty history the system content is the system
\* prompt followed by the history.
C16_Original ==
    \A c \in 1..Len(calls) :
        (args.conversation_history.some /\ args.conversation_history.val # "")
            => calls[c].system = PromptThenHistory(args.conversation_history.val)

\* C16: the system content is the system prompt, a blank line, the line
\* "Previous conversation:" and the history when a non-empty history is
\* supplied, the bare prompt otherwise; every call of the query carries this
\* system content and the same model, temperature and max_tokens.
C16_SystemContentAndBaseParams ==
    \A c \in 1..Len(calls) :
        LET h == args.conversation_history IN
        /\ (h.some /\ h.val # "")
             => calls[c].system = SYSTEM_PROMPT \o "\n\nPrevious conversation:\n" \o h.val
        /\ ~(h.some /\ h.val # "") => calls[c].system = SYSTEM_PROMPT
        /\ calls[c].system = calls[1].system
        /\ calls[c].model = "test-model"
        /\ calls[c].temperature = 0
        /\ calls[c].max_tokens = 800

\* C16 witness: three calls of a query that was given a history
C16_Witness ==
    /\ Len(calls) = 3
    /\ args.conversation_history.some /\ args.conversation_history.val # ""
    /\ calls[3].system # SYSTEM_PROMPT

\* the most steps one round can take: it begins, passes over or executes up
\* to MaxBlocks blocks, and makes its follow-up call
RoundCost == MaxBlocks + 2

\* an upper bound of the steps a query still has to take
StepsLeft ==
    LET rounds_left == MAX_TOOL_ROUNDS - round_count IN
    CASE pc = "idle" -> 3 + MAX_TOOL_ROUNDS * RoundCost
      [] pc = "called" -> 2 + MAX_TOOL_ROUNDS * RoundCost
      [] pc = "loop" -> 1 + rounds_left * RoundCost
      [] pc = "exec" -> 2 + rounds_left * RoundCost + (Len(response.content) + 1 - block_idx)
      [] pc = "break" -> 1
      [] OTHER -> 0

\* a started query can take a step; whether the follow-up call can be made does
\* not depend on the response it will get
CanStep ==
    ENABLED (\/ ReturnDirect \/ EnterToolLoop \/ BeginRound \/ SkipBlock
             \/ \E text \in ToolTexts : ExecuteToolReturns(text)
             \/ \E etext \in ExceptionTexts : ExecuteToolRaises(etext)
             \/ FollowUpCall(NoResponse)
             \/ ReturnFromLoop)

----------------------------------------------------------------------------
(* Vocabulary of the registry properties *)

\* what get_last_sources would return now, and after the step
HeldSources == GetLastSources(registered, last_sources)
HeldSourcesAfter == GetLastSources(registered', last_sources')

\* the step is a registry operation of kind op
OpStep(op) == last_op'.n = last_op.n + 1 /\ last_op'.op = op

\* query q returns in the step
Returns(q) == qpc[q] # "returned" /\ qpc'[q] = "returned"

\* C17: executing a name that is not registered returns a text containing
\* "not found" as the result, never raises, and leaves the registered tools
\* and the recorded sources as they were
C17_UnknownToolNotFound ==
    [][(OpStep("execute") /\ ~IsRegistered(registered, last_op'.name))
        => /\ last_op'.outcome = "returned"
           /\ ContainsPhrase(last_op'.text, <<"not", "found">>)
           /\ registered' = registered
           /\ last_sources' = last_sources]_vars

C17_Witness ==
    /\ last_op.op = "execute"
    /\ last_op.name = "unknown_tool"
    /\ last_op.outcome = "returned"
    /\ HeldSources # <<>>

\* C18: every RAG query retrieves the last sources once and then resets them
\* once; when a query returns the registry holds no sources, and it holds
\* none until a tool execution records new ones
C18_QueryResetsOnce ==
    /\ [](\A q \in Requests :
            /\ qpc[q] \in {"idle", "generating"} => qcalls[q] = [gets |-> 0, resets |-> 0]
            /\ qpc[q] = "retrieved" => qcalls[q] = [gets |-> 1, resets |-> 0]
            /\ qpc[q] = "returned" => qcalls[q] = [gets |-> 1, resets |-> 1])
    /\ [][(\E q \in Requests : Returns(q)) => HeldSourcesAfter = <<>>]_vars
    /\ [][(HeldSources = <<>> /\ HeldSourcesAfter # <<>>) => OpStep("execute")]_vars

C18_Witness ==
    \E q \in Requests :
        /\ qpc[q] = "returned"
        /\ qexecs[q] > 0
        /\ qsources[q] # <<>>
        /\ HeldSources = <<>>

\* C19: where queries run one at a time, a query returns only sources that
\* its own tool executions recorded; the witness is the interleaved case, a
\* query that has returned sources another query recorded
C19_OwnSourcesWhenSerialized ==
    [](serialized =>
         \A q \in Requests : \A i \in DOMAIN qsources[q] : qsources[q][i].by = q)

C19_Witness ==
    /\ ~serialized
    /\ \E q \in Requests :
         /\ qpc[q] = "returned"
         /\ \E i \in DOMAIN qsources[q] : qsources[q][i].by # q

\* C20: after reset_sources get_last_sources returns the empty list and the
\* registered tools are as before; after a successful search with at least
\* one match get_last_sources returns a non-empty list, until a reset
C20_ResetEmptiesSources ==
    /\ [][OpStep("reset_sources")
           => HeldSourcesAfter = <<>> /\ registered' = registered]_vars
    /\ [][(/\ OpStep("execute")
           /\ last_op'.name = "search_course_content"
           /\ IsRegistered(registered, last_op'.name)
           /\ ~last_op'.store.error
           /\ last_op'.store.matches >= 1)
           => HeldSourcesAfter # <<>>]_vars
    /\ [][(HeldSources # <<>> /\ HeldSourcesAfter = <<>>) => OpStep("reset_sources")]_vars

C20_Witness ==
    /\ last_op.op = "reset_sources"
    /\ Len(qsources[last_op.by]) = MaxMatches
    /\ Len(registered) = Cardinality(ToolNames)
    /\ HeldSources = <<>>

\* s is an initial part of t
IsPrefix(s, t) == Len(s) <= Len(t) /\ SubSeq(t, 1, Len(s)) = s

\* the roles are user, assistant, user, ... from the first entry on
AlternatingRoles(msgs) ==
    \A j \in 1..Len(msgs) : msgs[j].role = (IF j % 2 = 1 THEN "user" ELSE "assistant")

\* C25: within a query the message list only grows, one entry at a time and
\* without removing or replacing an entry; a round appends one assistant and
\* then one user message, so the k-th follow-up call is sent 1 + 2k entries
\* whose roles alternate from user to user, and the list of every call is an
\* initial part of the list of the next call
C25_MessagesGrowMonotonically ==
    /\ [][IsPrefix(messages, messages') /\ Len(messages') <= Len(messages) + 1]_vars
    /\ [](pc = "exec" => /\ Len(messages) = 2 * round_count
                         /\ messages[Len(messages)].role = "assistant")
    /\ [](pc \in {"loop", "break"} => Len(messages) = 1 + 2 * round_count)
    /\ [](\A k \in 1..Len(calls) :
            /\ Len(calls[k].messages) = 1 + 2 * (k - 1)
            /\ AlternatingRoles(calls[k].messages)
            /\ calls[k].messages[1].role = "user"
            /\ calls[k].messages[Len(calls[k].messages)].role = "user"
            /\ k < Len(calls) => IsPrefix(calls[k].messages, calls[k + 1].messages))

C25_Witness ==
    /\ pc = "done"
    /\ Len(calls) = MAX_TOOL_ROUNDS + 1
    /\ Len(calls[Len(calls)].messages) = 1 + 2 * MAX_TOOL_ROUNDS
    /\ Len(messages) = 1 + 2 * MAX_TOOL_ROUNDS

\* the executions made for the block with call identifier id
ExecsOfBlock(id) == {n \in 1..Len(execs) : execs[n].id = id}

\* the tool_use blocks, as (response, position), that the loop has passed:
\* those of the responses whose round is over and, while a round executes,
\* those before the current position
PassedBlocks ==
    {p \in (1..Len(responses)) \X (1..(MaxBlocks + 1)) :
        /\ p[2] <= Len(responses[p[1]].content)
        /\ IsToolUse(responses[p[1]].content[p[2]])
        /\ \/ p[1] < Len(calls)
           \/ p[1] = Len(calls) /\ pc = "exec" /\ p[2] < block_idx}

\* C26: nothing is retried: every tool_use block of a response the loop has
\* processed is executed exactly once, with the name and the input of the
\* block; a block the loop has not reached, any block of the response that
\* ends the loop included, is never executed; there are as many executions
\* as processed tool_use blocks
C26_NothingRetried ==
    /\ \A k \in 1..Len(responses) : \A i \in 1..Len(responses[k].content) :
         LET b == responses[k].content[i] IN
           IsToolUse(b) =>
             IF <<k, i>> \in PassedBlocks
             THEN /\ Cardinality(ExecsOfBlock(b.id)) = 1
                  /\ \A n \in ExecsOfBlock(b.id) :
                       execs[n].name = b.name /\ execs[n].input = b.input
             ELSE ExecsOfBlock(b.id) = {}
    /\ Len(execs) = Cardinality(PassedBlocks)
    /\ pc = "done" =>
         \A i \in 1..Len(responses[Len(responses)].content) :
            IsToolUse(responses[Len(responses)].content[i]) =>
                ExecsOfBlock(responses[Len(responses)].content[i].id) = {}

\* C26 witness: two rounds with a raise in the second, and a last response that
\* still holds a tool_use block
C26_Witness ==
    /\ pc = "done"
    /\ Len(responses) = 3
    /\ Len(execs) >= 3
    /\ RoundRaised(2)
    /\ ToolUsesOf(responses[3].content) # <<>>

\* C27: an execution that returns a text reporting a failure (tool not found,
\* search error of the store, no relevant content) does not mark the round as
\* errored: its tool_result holds the text without an error flag, the round
\* is errored only when an execution raised, and after a round 1 without a
\* raise the follow-up call offers the tools and a second round is taken when
\* the model asks for a tool again
C27_TextOutcomeIsNoError ==
    /\ \A n \in 1..Len(execs) :
         execs[n].outcome = "returned" =>
            /\ execs[n].text \in TextOutcomes
            /\ \E i \in 1..Len(ResultsOfRound(execs[n].calls_before)) :
                 LET r == ResultsOfRound(execs[n].calls_before)[i] IN
                    /\ r.tool_use_id = execs[n].id
                    /\ r.content = execs[n].text
                    /\ "is_error" \notin DOMAIN r
    /\ pc = "exec" => has_error = RoundRaised(Len(calls))
    /\ (Len(calls) >= 2 /\ ~RoundRaised(1)) =>
         /\ "tools" \in DOMAIN calls[2]
         /\ calls[2].tools = ToolDefinitions
         /\ (pc = "loop" /\ Len(calls) = 2 /\ response.stop_reason = "tool_use")
               => ENABLED BeginRound
         /\ (pc = "done" /\ responses[2].stop_reason = "tool_use") => Len(calls) = 3

\* C27 witness: round 1 returned the not-found text for every block, the model
\* asked for a tool again and the second round was taken
C27_Witness ==
    /\ pc = "done"
    /\ Len(calls) = 3
    /\ Len(ExecsOfRound(1)) = 2
    /\ \A n \in 1..Len(execs) :
         execs[n].outcome = "returned" /\ execs[n].text = "Tool 'unknown_tool' not found"

\* the query has done something only the tool loop does
LoopWork == pc \in {"loop", "exec", "break"} \/ Len(calls) >= 2 \/ execs # <<>>

\* C28: the tool loop is entered only when the initial response has stop
\* reason tool_use, a tool manager was passed and a non-empty tools list was
\* passed; when the initial response has stop reason tool_use and the tool
\* manager or the tools are missing, no tool is executed, no follow-up call
\* is made and the result is the first text block of the initial response,
\* or the empty string
C28_LoopNeedsManagerAndTools ==
    /\ LoopWork =>
         /\ responses[1].stop_reason = "tool_use"
         /\ args.tool_manager # None
         /\ args.tools # None /\ args.tools.val # <<>>
    /\ (/\ Len(responses) >= 1
        /\ responses[1].stop_reason = "tool_use"
        /\ (args.tool_manager = None \/ args.tools = None \/ args.tools.val = <<>>))
       => /\ execs = <<>>
          /\ Len(calls) = 1
          /\ pc \in {"called", "done"}
          /\ pc = "done" => result = Some(FirstTextOf(responses[1].content))

\* C28 witness: stop reason tool_use, a tool_use block before a text block, a
\* tool manager and an empty tools list; the text is returned
C28_Witness ==
    /\ pc = "done"
    /\ responses[1].stop_reason = "tool_use"
    /\ args.tool_manager # None /\ args.tools = Some(<<>>)
    /\ Len(responses[1].content) = 2
    /\ IsToolUse(responses[1].content[1]) /\ IsText(responses[1].content[2])
    /\ result = Some(responses[1].content[2].text)

\* response k reaches the while condition of the tool loop with stop reason
\* tool_use and without a tool_use block, and rounds are left
BlocklessToolUse(k) ==
    /\ k <= Len(responses) /\ k <= MAX_TOOL_ROUNDS
    /\ responses[k].stop_reason = "tool_use"
    /\ ToolUsesOf(responses[k].content) = <<>>
    /\ args.tool_manager # None /\ args.tools # None /\ args.tools.val # <<>>
    /\ \A j \in 1..(k - 1) : ~RoundRaised(j)

\* C29: a response with stop reason tool_use and no tool_use block consumes a
\* round: no tool is executed, the assistant message and a user message with
\* an empty list of results are appended, the round counter is incremented
\* and a follow-up call is issued with that list
C29_BlocklessResponseConsumesRound ==
    \A k \in 1..MAX_TOOL_ROUNDS :
        BlocklessToolUse(k) =>
            /\ ExecsOfRound(k) = <<>>
            /\ pc = "exec" /\ Len(calls) = k => round_count = k /\ tool_results = <<>>
            /\ pc \in {"break", "done"} => Len(calls) >= k + 1
            /\ Len(calls) >= k + 1 =>
                 LET m == calls[k + 1].messages IN
                    /\ Len(m) = 2 * k + 1
                    /\ m[2 * k] = [role |-> "assistant", content |-> responses[k].content]
                    /\ m[2 * k + 1] = [role |-> "user", content |-> <<>>]
            /\ pc \in {"loop", "break"} /\ Len(calls) = k + 1 => round_count = k

\* C29 witness: both rounds were consumed by responses without a tool_use
\* block, three calls were made and no tool was executed
C29_Witness ==
    /\ pc = "done"
    /\ BlocklessToolUse(1) /\ BlocklessToolUse(2)
    /\ Len(calls) = 3
    /\ round_count = MAX_TOOL_ROUNDS
    /\ execs = <<>>
    /\ calls[3].messages[5].content = <<>>

\* C30: the tool loop does not change the list it receives: from the initial
\* call on, and after the loop has returned, the list of the caller holds
\* exactly the one user message it held when the loop was called, while the
\* loop's own list grows
C30_CallerListUntouched ==
    /\ pc # "idle" => /\ api_messages = <<[role |-> "user", content |-> args.query]>>
                      /\ api_messages = calls[1].messages
                      /\ IsPrefix(api_messages, messages)
    /\ [][pc # "idle" => api_messages' = api_messages]_vars

\* C30 witness: the loop has returned after MAX_TOOL_ROUNDS rounds, having
\* appended four entries to its own list
C30_Witness ==
    /\ pc = "done"
    /\ round_count = MAX_TOOL_ROUNDS
    /\ Len(messages) = 1 + 2 * MAX_TOOL_ROUNDS
    /\ Len(api_messages) = 1

\* the step is an execution of the registered search tool
SearchStep == /\ OpStep("execute")
              /\ last_op'.name = "search_course_content"
              /\ IsRegistered(registered, last_op'.name)

\* C21: a search for which the store reports no error and no match returns a
\* text containing "No relevant content found" that names the course filter
\* when one was given and the lesson filter when one was given; every search
\* passes the query, the course name and the lesson number to the store as
\* they were given, a filter that was left out as None
C21_NoContentNamesFilters ==
    [][SearchStep =>
        LET k == last_op'.kwargs
            t == last_op'.text
        IN /\ last_op'.search = Some([query |-> k.query, course_name |-> k.course_name,
                                      lesson_number |-> k.lesson_number])
           /\ (~last_op'.store.error /\ last_op'.store.matches = 0) =>
                /\ last_op'.outcome = "returned"
                /\ ContainsPhrase(t, <<"No", "relevant", "content", "found">>)
                /\ k.course_name # None => ContainsPhrase(t, <<k.course_name.val>>)
                /\ k.lesson_number # None =>
                     ContainsPhrase(t, <<"lesson", ToString(k.lesson_number.val)>>)]_vars

\* C21 witness: a search with both filters that found nothing
C21_Witness ==
    /\ last_op.op = "execute"
    /\ last_op.search # None
    /\ last_op.search.val.course_name = Some("Some Course")
    /\ last_op.search.val.lesson_number = Some(1)
    /\ ~last_op.store.error /\ last_op.store.matches = 0
    /\ ContainsPhrase(last_op.text, <<"Some Course">>)

\* C22: a successful search records exactly one source per match, in the
\* order of the matches: as many sources as the store returned matches, the
\* i-th with the header of the i-th match as display text and with the link
\* the store holds for its lesson, which may be absent
C22_OneSourcePerMatch ==
    [][(SearchStep /\ ~last_op'.store.error /\ last_op'.store.matches >= 1) =>
        LET s == last_sources'["search_course_content"]
            ls == last_op'.store.lessons
        IN /\ Len(s) = last_op'.store.matches
           /\ Len(s) = Len(ls)
           /\ \A i \in 1..Len(s) :
                /\ {"text", "link"} \subseteq DOMAIN s[i]
                /\ s[i].text = "AI Fundamentals - Lesson " \o ToString(ls[i])
                /\ s[i].link = LessonLink(ls[i])
                /\ s[i].link \in {None, Some("https://example.com/lesson/" \o ToString(ls[i]))}]_vars

\* C22 witness: two matches, the first from a lesson without a link, the
\* second from a lesson with one
C22_Witness ==
    /\ last_op.op = "execute"
    /\ last_op.store.lessons = <<2, 1>>
    /\ Len(last_sources["search_course_content"]) = 2
    /\ last_sources["search_course_content"][1].link = None
    /\ last_sources["search_course_content"][2].link # None

\* the requests to POST /api/query handled so far
QueryEntries == {i \in 1..Len(api_log) : api_log[i].endpoint = "POST /api/query"}
CourseEntries == {i \in 1..Len(api_log) : api_log[i].endpoint = "GET /api/courses"}

\* the request carries no session id: the field is absent or empty
NoSessionId(request) == request.session_id = None \/ request.session_id = Some("")

\* C23: the handler of POST /api/query creates a session if and only if the
\* request carries no session id (absent or empty); the session id passed to
\* the RAG query and the one in the response are the same value, the id of
\* the request when it carries one, otherwise the id just created
C23_SessionCreatedIffMissing ==
    /\ \A i \in QueryEntries :
         LET e == api_log[i] IN
            /\ (e.create_session # None) <=> NoSessionId(e.request)
            /\ e.query # None =>
                 /\ e.query.val.args[1] = e.request.query
                 /\ e.query.val.args[2] =
                       (IF NoSessionId(e.request) THEN e.create_session.val.value
                        ELSE e.request.session_id.val)
                 /\ e.query.val.args[2] # ""
            /\ e.status = 200 =>
                 /\ e.query # None
                 /\ e.body.session_id = e.query.val.args[2]
    /\ session_count = Cardinality({i \in QueryEntries :
                            /\ NoSessionId(api_log[i].request)
                            /\ ~api_log[i].create_session.val.raised})

\* C23 witness: a request with an empty session id answered with a created
\* id, and a request with a session id answered with that id
C23_Witness ==
    /\ Len(api_log) = 2
    /\ api_log[1].endpoint = "POST /api/query" /\ api_log[2].endpoint = "POST /api/query"
    /\ api_log[1].request.session_id = Some("")
    /\ api_log[1].status = 200 /\ api_log[1].body.session_id = "session_1"
    /\ api_log[2].request.session_id = Some("my-session-456")
    /\ api_log[2].status = 200 /\ api_log[2].body.session_id = "my-session-456"
    /\ session_count = 1

\* C24: an exception raised by create_session or by the RAG query in the
\* handler of POST /api/query, or by get_course_analytics in the handler of
\* GET /api/courses, gives status 500 with the text of the exception as
\* detail, and no success response; after a failed create_session the RAG
\* query is not called
C24_ExceptionGives500 ==
    /\ \A i \in QueryEntries :
         LET e == api_log[i] IN
            /\ (e.create_session # None /\ e.create_session.val.raised) =>
                 /\ e.status = 500
                 /\ e.body = [detail |-> e.create_session.val.exc.args[1]]
                 /\ e.query = None
            /\ (e.query # None /\ e.query.val.outcome.raised) =>
                 /\ e.status = 500
                 /\ e.body = [detail |-> e.query.val.outcome.exc.args[1]]
            /\ e.status \in {200, 500}
            /\ e.status = 200 =>
                 /\ e.create_session # None => ~e.create_session.val.raised
                 /\ e.query # None /\ ~e.query.val.outcome.raised
    /\ \A i \in CourseEntries :
         LET e == api_log[i] IN
            /\ e.analytics.raised =>
                 /\ e.status = 500
                 /\ e.body = [detail |-> e.analytics.exc.args[1]]
            /\ e.status \in {200, 500}
            /\ e.status = 200 => ~e.analytics.raised

\* C24 witness: a failed create_session and a failed get_course_analytics
C24_Witness ==
    /\ Len(api_log) = 2
    /\ api_log[1].endpoint = "POST /api/query"
    /\ api_log[1].create_session # None /\ api_log[1].create_session.val.raised
    /\ api_log[1].status = 500
    /\ api_log[1].body.detail = "Session store unavailable"
    /\ api_log[2].endpoint = "GET /api/courses"
    /\ api_log[2].status = 500
    /\ api_log[2].body.detail = "Storage error"

====
